---------------------------- MODULE Spec2Model ----------------------------
(***************************************************************************)
(* Asset Assistant (asset-assistant.py): the staging loop that classifies  *)
(* every image of the process directory by its file name, matches it       *)
(* against the movies / shows / collections libraries and copies, renames, *)
(* backs up, deletes or fails it.                                          *)
(*                                                                         *)
(* File and folder names are TLA+ strings; the Python string methods and   *)
(* regular expressions the script applies to them are the operators of the *)
(* first section, computed character by character.                         *)
(***************************************************************************)
EXTENDS Integers, Sequences, FiniteSets, TLC

(***************************************************************************)
(* Python values                                                           *)
(***************************************************************************)
\* Python's None (a missing configuration key, an unset local, a failed
\* re.match).  No file name or number string of the model equals it.
None == "<None>"

\* Truthiness of a str-or-None value: `if service:`, `if season_number:`.
Truthy(v) == v # None /\ v # ""

(***************************************************************************)
(* The names of the model: the files a run can find in the process         *)
(* directory, the folders of the three libraries, and the season           *)
(* subfolders (with their video files) a show folder can start with.       *)
(***************************************************************************)
FileNames ==
    {"Show (2020).jpg", "Show.jpg", "Marvel Collection.jpg",
     "Season 1.jpg", "Show (2020) - Season 3.jpg", "Show (2020) - Season 0.jpg",
     "Show (2020) - Specials.jpg", "Show (2020) - specials.png",
     "Show (2020) - S01E02.jpg", "notes.txt"}

MovieFolders == {"Show (2020)"}

ShowFolders ==
    {"Show (2020)", "X Show (2020)", "Show (2015)", "Show (2021)", "Show (UK)", "Show (US)"}

CollectionFolders == {"Marvel", "Marvel Extended"}

\* The season subfolders a show folder holds before the run
SeasonLayouts ==
    {{},
     {[sub |-> "Season 01", videos |-> <<"Show - S01E02.mkv">>],
      [sub |-> "Season 00", videos |-> <<"Show - S00E01.mkv">>]},
     {[sub |-> "Season 01", videos |-> <<"Show - S1E2.mkv">>]}}

VideoNames == UNION {{r.videos[i] : i \in 1..Len(r.videos)} : r \in UNION SeasonLayouts}

\* Every name the script parses.  The operators below that scan one name are
\* computed once for each of these (the ...Cache functions) and looked up
\* afterwards; for any other string they are computed on the spot.
Names == FileNames \cup MovieFolders \cup ShowFolders \cup CollectionFolders \cup VideoNames

(***************************************************************************)
(* str methods                                                             *)
(***************************************************************************)
Char(s, i) == SubSeq(s, i, i)

Upper == "ABCDEFGHIJKLMNOPQRSTUVWXYZ"

Lower == "abcdefghijklmnopqrstuvwxyz"

Digits == "0123456789"

IsDigit(c) == c \in {Char(Digits, i) : i \in 1..10}

\* \s of the re module, for the characters a file name can hold.
IsSpace(c) == c = " " \/ c = "\t"

\* c.lower() of one character
lowerOf == [c \in {Char(Upper, i) : i \in 1..26} |->
               Char(Lower, CHOOSE i \in 1..26 : Char(Upper, i) = c)]

lowerChar(c) == IF c \in DOMAIN lowerOf THEN lowerOf[c] ELSE c

\* s[i:].lower(), i counted from 1
RECURSIVE lowerFrom(_, _)
lowerFrom(s, i) == IF i > Len(s) THEN "" ELSE lowerChar(Char(s, i)) \o lowerFrom(s, i + 1)

\* str.lower()
lowerScan(s) == lowerFrom(s, 1)

lowerCache == [n \in Names |-> lowerScan(n)]

lower(s) == IF s \in Names THEN lowerCache[s] ELSE lowerScan(s)

\* s[i:] with i counted from 1
From(s, i) == SubSeq(s, i, Len(s))

\* True when sub occurs in s at position i (counted from 1)
At(s, i, sub) == i >= 1 /\ i + Len(sub) - 1 <= Len(s) /\ SubSeq(s, i, i + Len(sub) - 1) = sub

\* `sub in s`
Contains(sub, s) == \E i \in 1..(Len(s) + 1) : At(s, i, sub)

\* str.find counted from 1; 0 when absent
Find(s, sub) ==
    IF Contains(sub, s)
    THEN CHOOSE i \in 1..(Len(s) + 1) : At(s, i, sub) /\ \A j \in 1..(i - 1) : ~At(s, j, sub)
    ELSE 0

\* s.split(c)[0]
SplitFirst(s, c) == IF Contains(c, s) THEN SubSeq(s, 1, Find(s, c) - 1) ELSE s

\* The index of the first character of s from i on that is no whitespace;
\* Len(s) + 1 when there is none.
RECURSIVE skipSpace(_, _)
skipSpace(s, i) == IF i <= Len(s) /\ IsSpace(Char(s, i)) THEN skipSpace(s, i + 1) ELSE i

\* The index of the last character of s up to i that is no whitespace; 0
\* when there is none.
RECURSIVE skipSpaceBack(_, _)
skipSpaceBack(s, i) == IF i >= 1 /\ IsSpace(Char(s, i)) THEN skipSpaceBack(s, i - 1) ELSE i

\* str.strip()
strip(s) ==
    IF skipSpace(s, 1) > Len(s) THEN ""
    ELSE SubSeq(s, skipSpace(s, 1), skipSpaceBack(s, Len(s)))

\* s[i:].replace(old, ""), old not empty
RECURSIVE removeFrom(_, _, _)
removeFrom(s, i, old) ==
    IF i > Len(s) THEN ""
    ELSE IF At(s, i, old) THEN removeFrom(s, i + Len(old), old)
    ELSE Char(s, i) \o removeFrom(s, i + 1, old)

\* s.replace(old, "")
remove(s, old) == removeFrom(s, 1, old)

\* s.endswith(suffix)
EndsWith(s, suffix) == Len(suffix) <= Len(s) /\ From(s, Len(s) - Len(suffix) + 1) = suffix

\* s.zfill(2) of a digit string
zfill2(s) == IF Len(s) < 2 THEN SubSeq("00", 1, 2 - Len(s)) \o s ELSE s

\* os.path.splitext(name)[0] and [1]: the extension starts at the last dot,
\* unless only dots come before it.
extPos(name) ==
    LET dots == {i \in 1..Len(name) : Char(name, i) = "."} IN
    IF dots = {} THEN 0
    ELSE LET i == CHOOSE i \in dots : \A j \in dots : j <= i IN
         IF \A j \in 1..(i - 1) : Char(name, j) = "." THEN 0 ELSE i

splitext0(name) == IF extPos(name) = 0 THEN name ELSE SubSeq(name, 1, extPos(name) - 1)

splitext1(name) == IF extPos(name) = 0 THEN "" ELSE From(name, extPos(name))

digitVal(c) == (CHOOSE i \in 1..10 : Char(Digits, i) = c) - 1

\* int(s[:i]) of a digit string
RECURSIVE intUpTo(_, _)
intUpTo(s, i) == IF i = 0 THEN 0 ELSE 10 * intUpTo(s, i - 1) + digitVal(Char(s, i))

\* int() of a digit string
int(s) == intUpTo(s, Len(s))

\* abs()
abs(n) == IF n < 0 THEN -n ELSE n

\* The end (last index) of the longest run of digits that starts at i; i - 1
\* when s[i] is no digit: what \d+ consumes from i.
RECURSIVE digitsEnd(_, _)
digitsEnd(s, i) ==
    IF i <= Len(s) /\ IsDigit(Char(s, i)) THEN digitsEnd(s, i + 1) ELSE i - 1

\* The end of the longest run of whitespace that starts at i; i - 1 when s[i]
\* is no whitespace: what \s* consumes from i.
spaceEnd(s, i) == skipSpace(s, i) - 1

(***************************************************************************)
(* Regular expressions of the script                                       *)
(***************************************************************************)
\* r'\s\((\d{4})\)' matches at k: a whitespace, "(", four digits, ")".
yearAt(s, k) ==
    /\ k >= 1 /\ k + 6 <= Len(s)
    /\ IsSpace(Char(s, k))
    /\ Char(s, k + 1) = "("
    /\ \A j \in (k + 2)..(k + 5) : IsDigit(Char(s, j))
    /\ Char(s, k + 6) = ")"

\* r'(.+)\s\((\d{4})\)' (search and match agree: a match that starts later
\* also matches from the first character).  The greedy group takes the last
\* " (dddd)" that has a character before it.
showPosScan(s) ==
    IF \E k \in 2..Len(s) : yearAt(s, k)
    THEN CHOOSE k \in 2..Len(s) : yearAt(s, k) /\ \A j \in (k + 1)..Len(s) : ~yearAt(s, j)
    ELSE 0

showPosCache == [n \in Names |-> showPosScan(n)]

showPos(s) == IF s \in Names THEN showPosCache[s] ELSE showPosScan(s)

\* group(1) and group(2) of the show pattern; None without a match
showGroup1(s) == IF showPos(s) = 0 THEN None ELSE SubSeq(s, 1, showPos(s) - 1)

showGroup2(s) == IF showPos(s) = 0 THEN None ELSE SubSeq(s, showPos(s) + 2, showPos(s) + 5)

\* r'(?:^|\s|-)\s*Season\s+(\d+)', IGNORECASE, with "Season" at i
seasonAt(s, i) ==
    /\ i >= 1 /\ i + 7 <= Len(s)
    /\ (i = 1 \/ IsSpace(Char(s, i - 1)) \/ Char(s, i - 1) = "-")
    /\ lower(SubSeq(s, i, i + 5)) = "season"
    /\ IsSpace(Char(s, i + 6))
    /\ digitsEnd(s, spaceEnd(s, i + 6) + 1) >= spaceEnd(s, i + 6) + 1

\* season_pattern.search: the leftmost match; 0 without one
seasonPosScan(s) ==
    IF \E i \in 1..Len(s) : seasonAt(s, i)
    THEN CHOOSE i \in 1..Len(s) : seasonAt(s, i) /\ \A j \in 1..(i - 1) : ~seasonAt(s, j)
    ELSE 0

seasonPosCache == [n \in Names |-> seasonPosScan(n)]

seasonPos(s) == IF s \in Names THEN seasonPosCache[s] ELSE seasonPosScan(s)

seasonGroup1(s) ==
    LET d == spaceEnd(s, seasonPos(s) + 6) + 1 IN
    IF seasonPos(s) = 0 THEN None ELSE SubSeq(s, d, digitsEnd(s, d))

\* Where the "E" of r'S(\d+)[\s\.]?E(\d+)' stands when the "S" is at i; 0
\* when the pattern does not match at i.
episodeE(s, i) ==
    LET j == digitsEnd(s, i + 1) + 1
        e == IF j <= Len(s) /\ lowerChar(Char(s, j)) = "e" THEN j
             ELSE IF j + 1 <= Len(s) /\ (IsSpace(Char(s, j)) \/ Char(s, j) = ".")
                     /\ lowerChar(Char(s, j + 1)) = "e" THEN j + 1
             ELSE 0
    IN IF /\ i >= 1 /\ i <= Len(s) /\ lowerChar(Char(s, i)) = "s"
          /\ j > i + 1
          /\ e # 0 /\ digitsEnd(s, e + 1) >= e + 1
       THEN e ELSE 0

\* episode_pattern.search: the leftmost match; 0 without one
episodePosScan(s) ==
    IF \E i \in 1..Len(s) : episodeE(s, i) # 0
    THEN CHOOSE i \in 1..Len(s) : episodeE(s, i) # 0 /\ \A j \in 1..(i - 1) : episodeE(s, j) = 0
    ELSE 0

episodePosCache == [n \in Names |-> episodePosScan(n)]

episodePos(s) == IF s \in Names THEN episodePosCache[s] ELSE episodePosScan(s)

\* re.match(r'.*S(\d+)[\s\.]?E(\d+)'): the greedy prefix takes the last match
episodeLastPosScan(s) ==
    IF \E i \in 1..Len(s) : episodeE(s, i) # 0
    THEN CHOOSE i \in 1..Len(s) : episodeE(s, i) # 0 /\ \A j \in (i + 1)..Len(s) : episodeE(s, j) = 0
    ELSE 0

episodeLastPosCache == [n \in Names |-> episodeLastPosScan(n)]

episodeLastPos(s) == IF s \in Names THEN episodeLastPosCache[s] ELSE episodeLastPosScan(s)

\* group(1) and group(2) of the episode pattern matched with its "S" at i
episodeGroup1(s, i) == SubSeq(s, i + 1, digitsEnd(s, i + 1))

episodeGroup2(s, i) == SubSeq(s, episodeE(s, i) + 1, digitsEnd(s, episodeE(s, i) + 1))

\* specials_pattern.search: r'Specials', IGNORECASE
specialsMatchScan(s) == Contains("specials", lower(s))

specialsMatchCache == [n \in Names |-> specialsMatchScan(n)]

specialsMatch(s) == IF s \in Names THEN specialsMatchCache[s] ELSE specialsMatchScan(s)

\* "S\d+" (IGNORECASE) at m
sDigitsAt(s, m) == m + 1 <= Len(s) /\ lowerChar(Char(s, m)) = "s" /\ IsDigit(Char(s, m + 1))

\* The lazy group of r'(.+?)\s*(?:\(|S\d+|$)' (kometa episode cards) ends at
\* k when, after optional whitespace, "(" or "S<digit>" or the end follows.
kometaShowEnd(s, k) ==
    \E m \in (k + 1)..(spaceEnd(s, k + 1) + 1) :
        m = Len(s) + 1 \/ Char(s, m) = "(" \/ sDigitsAt(s, m)

\* group(1) of that match; None when the name is empty
kometaShowNameScan(s) ==
    IF s = "" THEN None
    ELSE SubSeq(s, 1, CHOOSE k \in 1..Len(s) :
                        kometaShowEnd(s, k) /\ \A j \in 1..(k - 1) : ~kometaShowEnd(s, j))

kometaShowNameCache == [n \in Names |-> kometaShowNameScan(n)]

kometaShowName(s) == IF s \in Names THEN kometaShowNameCache[s] ELSE kometaShowNameScan(s)

\* The lazy group of r'(.+?)\s*(?:-|S\d+)' (plex episode cards)
plexShowEnd(s, k) ==
    \E m \in (k + 1)..(spaceEnd(s, k + 1) + 1) :
        m <= Len(s) /\ (Char(s, m) = "-" \/ sDigitsAt(s, m))

\* group(1) of that match, or None
plexShowNameScan(s) ==
    IF \E k \in 1..Len(s) : plexShowEnd(s, k)
    THEN SubSeq(s, 1, CHOOSE k \in 1..Len(s) :
                        plexShowEnd(s, k) /\ \A j \in 1..(k - 1) : ~plexShowEnd(s, j))
    ELSE None

plexShowNameCache == [n \in Names |-> plexShowNameScan(n)]

plexShowName(s) == IF s \in Names THEN plexShowNameCache[s] ELSE plexShowNameScan(s)

\* re.search(r'\((\d{4})\)', s): group(1) of the first match, or None
parenYearAt(s, k) ==
    /\ k >= 1 /\ k + 5 <= Len(s)
    /\ Char(s, k) = "("
    /\ \A j \in (k + 1)..(k + 4) : IsDigit(Char(s, j))
    /\ Char(s, k + 5) = ")"

parenYearScan(s) ==
    IF \E k \in 1..Len(s) : parenYearAt(s, k)
    THEN LET k == CHOOSE k \in 1..Len(s) : parenYearAt(s, k) /\ \A j \in 1..(k - 1) : ~parenYearAt(s, j)
         IN SubSeq(s, k + 1, k + 4)
    ELSE None

parenYearCache == [n \in Names |-> parenYearScan(n)]

parenYear(s) == IF s \in Names THEN parenYearCache[s] ELSE parenYearScan(s)

(***************************************************************************)
(* Sequences (directory listings)                                          *)
(***************************************************************************)
Range(q) == {q[i] : i \in 1..Len(q)}

\* The first element of listing q, or None: with SelectSeq, a `for` loop that
\* takes the first hit and breaks.
First(q) == IF Len(q) = 0 THEN None ELSE q[1]

\* "(US)" in d or "(USA)" in d
IsUS(d) == Contains("(US)", d) \/ Contains("(USA)", d)

\* "(AU)" in d or "(UK)" in d or "(CA)" in d
IsOtherRegion(d) == Contains("(AU)", d) \/ Contains("(UK)", d) \/ Contains("(CA)", d)

(***************************************************************************)
(* State                                                                   *)
(***************************************************************************)
VARIABLES
    service,            \* config.get('service', None)
    plex_specials,      \* config.get('plex_specials', None): None, "True", "False"
    backup_enabled,     \* config.get('enable_backup', False)
    listing,            \* os.listdir of movies_dir, shows_dir, collections_dir
    season_dirs,        \* the season subfolders every show folder starts with,
                        \* each with the listing of its video files
    image_size,         \* <<width, height>> of every staging image
    process,            \* the files in process_dir
    library,            \* the files the run wrote under the library folders
    made_dirs,          \* the season subfolders the run created
    failed,             \* the files in failed_dir
    backup_dir,         \* the files in backup_dir
    moved_counts,       \* the run's tally
    files_to_process,   \* the snapshot of process_dir
    idx,                \* position of the loop in the snapshot
    filename,           \* loop variable
    category,           \* locals of the loop body
    season_number,
    episode_number,
    updated_category,
    pc,                 \* where the script stands
    fault,              \* what ended the run early: sys.exit(1) or an exception
    exit_code           \* None while running, then "0" or "1"

config == <<service, plex_specials, backup_enabled, listing, season_dirs, image_size>>

disk == <<process, library, made_dirs, failed, backup_dir>>

locals == <<filename, category, season_number, episode_number, updated_category>>

vars == <<config, disk, moved_counts, files_to_process, idx, locals, pc, fault, exit_code>>

Placed == {"movie", "show", "season", "episode", "collection"}

(***************************************************************************)
(* categories(filename, movies_dir, shows_dir), lines 243-410              *)
(***************************************************************************)
\* show_name and show_year, lines 253-263
showName(f) == IF showPos(f) = 0 THEN None ELSE strip(showGroup1(f))

showYear(f) == IF showPos(f) = 0 THEN None ELSE strip(showGroup2(f))

\* f"{show_name} ({show_year})"
expectedDir(f) == showName(f) \o " (" \o showYear(f) \o ")"

\* os.path.exists(os.path.join(shows_dir, expected_dir))
showDirExists(d) == d \in Range(listing.shows)

\* Step 1 of the episode branch, lines 304-315: the show folders "<name>
\* (<year>)" whose name starts with the asset's.
matchingDirs(f) ==
    SelectSeq(listing.shows,
              LAMBDA d : /\ showPos(d) # 0
                         /\ At(lower(strip(showGroup1(d))), 1, lower(showName(f))))

\* year_diff of line 343
yearDiff(f, d) == abs(int(showYear(f)) - int(parenYear(d)))

\* Step 3, lines 337-346: the first folder of the smallest year difference
\* below the initial 9999.
closestYear(f, dirs) ==
    First(SelectSeq(dirs, LAMBDA d : /\ parenYear(d) # None
                                     /\ yearDiff(f, d) < 9999
                                     /\ \A i \in 1..Len(dirs) :
                                           parenYear(dirs[i]) # None => yearDiff(f, d) <= yearDiff(f, dirs[i])))

\* Lines 317-369: best_match of the episode branch.
episodeBestMatch(f) ==
    LET dirs == matchingDirs(f)
        exact == First(SelectSeq(dirs, LAMBDA d : lower(d) = lower(expectedDir(f))))
        us == First(SelectSeq(dirs, LAMBDA d : IsUS(d)))
        step2 == IF Len(dirs) > 1 THEN (IF exact # None THEN exact ELSE us) ELSE None
        step4 == IF step2 = None THEN closestYear(f, dirs)
                 ELSE IF Len(dirs) = 1 THEN dirs[1] ELSE step2
        partial == First(SelectSeq(listing.shows,
                                   LAMBDA d : Contains(lower(showName(f)), lower(d)) /\ ~IsOtherRegion(d)))
        anyPartial == First(SelectSeq(listing.shows,
                                      LAMBDA d : Contains(lower(showName(f)), lower(d))))
    IN IF step4 # None THEN step4
       ELSE IF partial # None THEN partial
       ELSE anyPartial

\* filename.split('.')[0].lower()
stem(f) == lower(SplitFirst(f, "."))

\* name.lower().replace("collection", "").strip()
stripCollection(lowered) == strip(remove(lowered, "collection"))

\* The collections folder of line 380, or None
collectionMatch(f) ==
    First(SelectSeq(listing.collections,
                    LAMBDA d : stripCollection(stem(f)) = stripCollection(lower(d))))

\* A fallback that looks in the movies and shows libraries before the
\* collections
fallbackMoviesFirst(f) ==
    IF First(SelectSeq(listing.movies, LAMBDA d : Contains(stem(f), lower(d)))) # None
    THEN "movie"
    ELSE IF First(SelectSeq(listing.shows, LAMBDA d : Contains(stem(f), lower(d)))) # None
         THEN "show"
    ELSE IF collectionMatch(f) # None
         THEN (IF service \in {"kometa", "kodi"} THEN "collection" ELSE "not_supported")
    ELSE None

\* Lines 378-396: collections first, then movies, then shows
fallbackCategory(f) ==
    IF collectionMatch(f) # None
    THEN (IF service \in {"kometa", "kodi"} THEN "collection" ELSE "not_supported")
    ELSE IF First(SelectSeq(listing.movies, LAMBDA d : Contains(stem(f), lower(d)))) # None
         THEN "movie"
    ELSE IF First(SelectSeq(listing.shows, LAMBDA d : Contains(stem(f), lower(d)))) # None
         THEN "show"
    ELSE None

\* A gate that never looks for the show folder
showGateOpen(f, cat) == cat

\* The gate of lines 269-274 and 282-288
showGate(f, cat) ==
    IF Truthy(showName(f)) /\ ~showDirExists(expectedDir(f)) THEN None ELSE cat

\* A classifier that tries the episode pattern before the season and specials
\* patterns
classifyEpisodeFirst(f) ==
    IF episodePos(f) # 0 THEN
        IF Truthy(service)
        THEN [category |-> IF Truthy(showName(f)) /\ episodeBestMatch(f) = None
                           THEN None ELSE "episode",
              season |-> episodeGroup1(f, episodePos(f)),
              episode |-> episodeGroup2(f, episodePos(f))]
        ELSE [category |-> "skip", season |-> None, episode |-> None]
    ELSE IF seasonPos(f) # 0 THEN
        IF Truthy(service)
        THEN [category |-> showGate(f, "season"), season |-> seasonGroup1(f), episode |-> None]
        ELSE [category |-> "skip", season |-> None, episode |-> None]
    ELSE IF specialsMatch(f) THEN
        IF Truthy(service)
        THEN [category |-> showGate(f, "season"), season |-> None, episode |-> None]
        ELSE [category |-> "skip", season |-> None, episode |-> None]
    ELSE [category |-> fallbackCategory(f), season |-> None, episode |-> None]

\* (category, season_number, episode_number) of line 410
classify(f) ==
    IF seasonPos(f) # 0 THEN
        IF Truthy(service)
        THEN [category |-> showGate(f, "season"), season |-> seasonGroup1(f), episode |-> None]
        ELSE [category |-> "skip", season |-> None, episode |-> None]
    ELSE IF specialsMatch(f) THEN
        IF Truthy(service)
        THEN [category |-> showGate(f, "season"), season |-> None, episode |-> None]
        ELSE [category |-> "skip", season |-> None, episode |-> None]
    ELSE IF episodePos(f) # 0 THEN
        IF Truthy(service)
        THEN [category |-> IF Truthy(showName(f)) /\ episodeBestMatch(f) = None
                           THEN None ELSE "episode",
              season |-> episodeGroup1(f, episodePos(f)),
              episode |-> episodeGroup2(f, episodePos(f))]
        ELSE [category |-> "skip", season |-> None, episode |-> None]
    ELSE [category |-> fallbackCategory(f), season |-> None, episode |-> None]

(***************************************************************************)
(* copy_and_rename(filename, category, season_number, episode_number, ...),*)
(* lines 413-788.  Each branch yields what the call does: the value it     *)
(* returns, the file it leaves in a library folder (after shutil.copy and  *)
(* os.rename), the season subfolder it creates, whether it calls           *)
(* move_to_failed, and the fault that ends the run, if any.                *)
(***************************************************************************)
Outcome(ret, copy, mkdir, tofailed, raised) ==
    [ret |-> ret, copy |-> copy, mkdir |-> mkdir, tofailed |-> tofailed, raised |-> raised]

\* A file written to os.path.join(directory, folder, sub, name)
Dest(lib, folder, sub, name) == [lib |-> lib, folder |-> folder, sub |-> sub, name |-> name]

\* return 'failed' after move_to_failed
FailedOutcome == Outcome("failed", {}, {}, TRUE, None)

\* Lines 421-465: best_match of a movie or show asset in `dirs`
posterBestMatch(f, dirs) ==
    IF showPos(f) # 0 THEN
        LET file_name == lower(strip(showGroup1(f)))
            file_year == showGroup2(f)
            exact == First(SelectSeq(dirs, LAMBDA d : /\ showPos(d) # 0
                                                      /\ file_name = lower(strip(showGroup1(d)))
                                                      /\ file_year = showGroup2(d)))
        IN IF exact # None THEN exact
           ELSE First(SelectSeq(dirs, LAMBDA d : Contains(file_name, lower(d))))
    ELSE
        LET simple == First(SelectSeq(dirs, LAMBDA d : stem(f) = strip(SplitFirst(lower(d), "("))))
        IN IF simple # None THEN simple
           ELSE First(SelectSeq(dirs, LAMBDA d : Contains(stem(f), lower(d))))

\* Lines 417-475: the asset is copied under its own name; the function then
\* runs off the if/elif chain to `return category` of line 788.
placePoster(f, cat) ==
    LET lib == IF cat = "movie" THEN "movies" ELSE "shows"
        best_match == posterBestMatch(f, listing[lib])
    IN IF best_match # None
       THEN Outcome(cat, {Dest(lib, best_match, "", f)}, {}, FALSE, None)
       ELSE Outcome(cat, {}, {}, FALSE, None)

\* Line 487: "poster" when height > width, else "background"
posterName(f, size) ==
    IF size[2] > size[1] THEN "poster" \o splitext1(f) ELSE "background" \o splitext1(f)

\* Lines 476-491
placeCollection(f, cat) ==
    LET dir_name == First(SelectSeq(listing.collections,
                                    LAMBDA d : Contains(stripCollection(stem(f)), lower(d))))
    IN IF dir_name # None
       THEN Outcome(cat, {Dest("collections", dir_name, "", posterName(f, image_size[f]))},
                    {}, FALSE, None)
       ELSE Outcome(cat, {}, {}, FALSE, None)

\* The folder test of lines 498 and 585
seasonShowDir(f) ==
    First(SelectSeq(listing.shows,
                    LAMBDA d : Contains(lower(strip(SplitFirst(f, ")"))), lower(strip(SplitFirst(d, ")"))))))

\* Lines 504-507 and 618-619
seasonFileName(f, season) == "Season" \o zfill2(season) \o splitext1(f)

\* Lines 495-511; without a folder the loop ends and line 788 returns
kometaSeason(f, cat, season) ==
    LET dir_name == seasonShowDir(f)
        new_name == IF Truthy(season) THEN seasonFileName(f, season)
                    ELSE "Season00" \o splitext1(f)
    IN IF dir_name # None
       THEN Outcome(cat, {Dest("shows", dir_name, "", new_name)}, {}, FALSE, None)
       ELSE Outcome(cat, {}, {}, FALSE, None)

\* Lines 529-563: best_match of a kometa episode card; None without a folder
kometaEpisodeDir(f) ==
    LET file_show_name == lower(strip(kometaShowName(f)))
        dirs == SelectSeq(listing.shows,
                          LAMBDA d : LET dir_show_name == lower(strip(SplitFirst(d, "(")))
                                     IN \/ Contains(file_show_name, dir_show_name)
                                        \/ Contains(dir_show_name, file_show_name))
        us == First(SelectSeq(dirs, LAMBDA d : IsUS(d)))
    IN IF Len(dirs) = 0 THEN None
       ELSE IF Len(dirs) > 1 /\ us # None THEN us
       ELSE dirs[1]

\* An episode card named from the digits as they stand in the filename
kometaEpisodeUnpadded(f, cat, season, episode) ==
    LET best_match == kometaEpisodeDir(f)
        new_name == "S" \o season \o "E" \o episode \o splitext1(f)
    IN IF kometaShowName(f) = None \/ best_match = None THEN FailedOutcome
       ELSE Outcome(cat, {Dest("shows", best_match, "", new_name)}, {}, FALSE, None)

\* Lines 513-575
kometaEpisode(f, cat, season, episode) ==
    LET best_match == kometaEpisodeDir(f)
        new_name == "S" \o zfill2(season) \o "E" \o zfill2(episode) \o splitext1(f)
    IN IF kometaShowName(f) = None \/ best_match = None THEN FailedOutcome
       ELSE Outcome(cat, {Dest("shows", best_match, "", new_name)}, {}, FALSE, None)

\* os.path.exists(season_dir)
seasonDirExists(folder, sub) ==
    (\E r \in season_dirs : r.sub = sub) \/ <<folder, sub>> \in made_dirs

\* Lines 578-634
plexSeason(f, cat, season) ==
    LET dir_name == seasonShowDir(f)
        bound == Truthy(season) \/ Contains("Specials", f)
        season_dir_name == IF Truthy(season) THEN "Season " \o zfill2(season)
                           ELSE IF plex_specials = "True" THEN "Specials"
                           ELSE "Season 00"
        new_name == IF Truthy(season) THEN seasonFileName(f, season)
                    ELSE "season-specials-poster" \o splitext1(f)
    IN IF dir_name = None THEN FailedOutcome
       ELSE IF ~Truthy(season) /\ Contains("Specials", f) /\ plex_specials = None
            THEN Outcome(None, {}, {}, FALSE, "sys.exit(1)")
       ELSE IF ~bound
            \* season_dir_name is read at line 606 without ever being assigned
            THEN Outcome(None, {}, {}, FALSE, "UnboundLocalError")
       ELSE Outcome(cat, {Dest("shows", dir_name, season_dir_name, new_name)},
                    IF seasonDirExists(dir_name, season_dir_name) THEN {}
                    ELSE {<<dir_name, season_dir_name>>},
                    FALSE, None)

\* Lines 642-690: best_match of a plex episode card
plexEpisodeDir(f) ==
    LET file_show_name == IF plexShowName(f) # None THEN strip(plexShowName(f))
                          ELSE SplitFirst(f, ".")
        exact_matches == SelectSeq(listing.shows,
            LAMBDA d : lower(file_show_name) = strip(SplitFirst(lower(d), "(")))
        partial_matches == SelectSeq(listing.shows,
            LAMBDA d : /\ lower(file_show_name) # strip(SplitFirst(lower(d), "("))
                       /\ Contains(lower(file_show_name), lower(d)))
        pick(dirs) == IF First(SelectSeq(dirs, LAMBDA d : IsUS(d))) # None
                      THEN First(SelectSeq(dirs, LAMBDA d : IsUS(d))) ELSE dirs[1]
    IN IF Len(exact_matches) > 0 THEN pick(exact_matches)
       ELSE IF Len(partial_matches) > 0 THEN pick(partial_matches)
       ELSE None

\* Line 748
IsVideo(v) == EndsWith(v, ".mkv") \/ EndsWith(v, ".mp4") \/ EndsWith(v, ".avi")

\* Lines 746-755: the video whose numbers equal the asset's zero-filled ones
matchingVideo(videos, season, episode) ==
    First(SelectSeq(videos, LAMBDA v : /\ IsVideo(v)
                                       /\ episodeLastPos(v) # 0
                                       /\ season = episodeGroup1(v, episodeLastPos(v))
                                       /\ episode = episodeGroup2(v, episodeLastPos(v))))

\* os.listdir(season_dir): the videos the folder started with (the run adds
\* images only, which line 748 skips)
seasonListing(sub) ==
    IF \E r \in season_dirs : r.sub = sub
    THEN (CHOOSE r \in season_dirs : r.sub = sub).videos
    ELSE <<>>

\* plexEpisode with the missing season subfolder created, as the season
\* branch does (lines 607-608), instead of failing the card
plexEpisodeMakesDir(f, cat) ==
    LET best_match == plexEpisodeDir(f)
        pos == episodeLastPos(f)
        season == zfill2(episodeGroup1(f, pos))
        episode == zfill2(episodeGroup2(f, pos))
        season_dir_name == IF season = "00"
                           THEN (IF plex_specials = "True" THEN "Specials" ELSE "Season 00")
                           ELSE "Season " \o zfill2(season)
        video == matchingVideo(seasonListing(season_dir_name), season, episode)
        mkdir == IF seasonDirExists(best_match, season_dir_name) THEN {}
                 ELSE {<<best_match, season_dir_name>>}
    IN IF best_match = None THEN FailedOutcome
       ELSE IF pos = 0 THEN FailedOutcome
       ELSE IF season = "00" /\ plex_specials = None
            THEN Outcome(None, {}, {}, FALSE, "sys.exit(1)")
       ELSE IF video = None THEN Outcome("failed", {}, mkdir, TRUE, None)
       ELSE Outcome(cat, {Dest("shows", best_match, season_dir_name,
                               splitext0(video) \o splitext1(f))}, mkdir, FALSE, None)

\* Lines 636-784
plexEpisode(f, cat) ==
    LET best_match == plexEpisodeDir(f)
        pos == episodeLastPos(f)
        season == zfill2(episodeGroup1(f, pos))
        episode == zfill2(episodeGroup2(f, pos))
        season_dir_name == IF season = "00"
                           THEN (IF plex_specials = "True" THEN "Specials" ELSE "Season 00")
                           ELSE "Season " \o zfill2(season)
        video == matchingVideo(seasonListing(season_dir_name), season, episode)
    IN IF best_match = None THEN FailedOutcome
       ELSE IF pos = 0 THEN FailedOutcome
       ELSE IF season = "00" /\ plex_specials = None
            THEN Outcome(None, {}, {}, FALSE, "sys.exit(1)")
       ELSE IF ~seasonDirExists(best_match, season_dir_name) THEN FailedOutcome
       ELSE IF video = None THEN FailedOutcome
       ELSE Outcome(cat, {Dest("shows", best_match, season_dir_name,
                               splitext0(video) \o splitext1(f))}, {}, FALSE, None)

\* The if/elif chain of copy_and_rename
copyAndRename(f, cat, season, episode) ==
    IF cat = "movie" \/ cat = "show" THEN placePoster(f, cat)
    ELSE IF cat = "collection" THEN placeCollection(f, cat)
    ELSE IF service = "kometa" THEN
        IF cat = "season" THEN kometaSeason(f, cat, season)
        ELSE IF cat = "episode" THEN kometaEpisode(f, cat, season, episode)
        ELSE Outcome(cat, {}, {}, FALSE, None)
    ELSE IF service = "plex" THEN
        IF cat = "season" THEN plexSeason(f, cat, season)
        ELSE IF cat = "episode" THEN plexEpisode(f, cat)
        ELSE Outcome(cat, {}, {}, FALSE, None)
    \* line 786: move_to_failed, and line 788 still returns the category
    ELSE Outcome(cat, {}, {}, TRUE, None)

(***************************************************************************)
(* Bounds and the inputs of a run                                          *)
(***************************************************************************)
\* Files in the process directory when the run starts
MaxFiles == 2

\* Folders in the three libraries together
MaxFolders == 2

\* Files and library folders together
MaxTotal == 3

\* config.get('service', None); "emby" stands for any other value
Services == {None, "kodi", "kometa", "plex", "emby"}

\* width and height PIL reports: portrait, landscape, square
Sizes == {<<1000, 1500>>, <<1500, 1000>>, <<1000, 1000>>}

\* The orders in which os.listdir can return the names of set S
Orders(S) ==
    {q \in [1..Cardinality(S) -> S] : \A i, j \in 1..Cardinality(S) : i # j => q[i] # q[j]}

\* The listings of at most MaxFolders of the folders S
Listings(S) == UNION {Orders(T) : T \in {T \in SUBSET S : Cardinality(T) <= MaxFolders}}

\* The three libraries of a run
Libraries ==
    {l \in [movies : Listings(MovieFolders), shows : Listings(ShowFolders),
            collections : Listings(CollectionFolders)] :
        Len(l.movies) + Len(l.shows) + Len(l.collections) <= MaxFolders}

\* Line 838: filename.lower().endswith(supported_extensions)
IsImage(f) ==
    EndsWith(lower(f), ".jpg") \/ EndsWith(lower(f), ".jpeg") \/ EndsWith(lower(f), ".png")

\* PIL reads the image in the collection branch only (line 485): the size
\* varies for the names that can match a collections folder.
ImagesRead ==
    {f \in FileNames :
        \E d \in CollectionFolders : stripCollection(stem(f)) = stripCollection(lower(d))}

TallyKeys == {"movie", "show", "season", "episode", "collection", "failed"}

Init ==
    /\ service \in Services
    \* plex_specials and the season subfolders are read by the plex branches only
    /\ plex_specials \in IF service = "plex" THEN {None, "True", "False"} ELSE {None}
    /\ season_dirs \in IF service = "plex" THEN SeasonLayouts ELSE {{}}
    /\ backup_enabled \in BOOLEAN
    /\ process \in {S \in SUBSET FileNames : Cardinality(S) <= MaxFiles}
    /\ listing \in {l \in Libraries :
                       Len(l.movies) + Len(l.shows) + Len(l.collections) + Cardinality(process)
                           <= MaxTotal}
    /\ image_size \in {z \in [process -> Sizes] :
                          \A f \in process : f \notin ImagesRead => z[f] = <<1000, 1500>>}
    /\ library = {}
    /\ made_dirs = {}
    /\ failed = {}
    /\ backup_dir = {}
    /\ moved_counts = [k \in TallyKeys |-> 0]
    /\ files_to_process = <<>>
    /\ idx = 1
    /\ filename = None
    /\ category = None
    /\ season_number = None
    /\ episode_number = None
    /\ updated_category = None
    /\ pc = "snapshot"
    /\ fault = None
    /\ exit_code = None

(***************************************************************************)
(* The run                                                                 *)
(***************************************************************************)
\* moved_counts[key] += n
Tally(counts, key, n) == [counts EXCEPT ![key] = @ + n]

\* An uncaught exception or sys.exit(1) ends the script with exit code 1
Halt(why) ==
    /\ fault' = why
    /\ exit_code' = "1"
    /\ pc' = "halted"

\* Lines 833-844: the snapshot takes the images of process_dir in the order
\* os.listdir returns them; every other file goes to move_to_failed.
Snapshot ==
    /\ pc = "snapshot"
    /\ LET images == {f \in process : IsImage(f)}
           others == process \ images
       IN /\ \E order \in Orders(images) : files_to_process' = order
          /\ process' = images
          /\ failed' = failed \cup others
          /\ moved_counts' = Tally(moved_counts, "failed", Cardinality(others))
    /\ pc' = "loop"
    /\ UNCHANGED <<config, library, made_dirs, backup_dir, idx, locals, fault, exit_code>>

\* Lines 847-850: the next file of the snapshot, skipped when it is gone
LoopNext ==
    /\ pc = "loop"
    /\ idx <= Len(files_to_process)
    /\ filename' = files_to_process[idx]
    /\ IF files_to_process[idx] \in process
       THEN pc' = "categories" /\ idx' = idx
       ELSE pc' = "loop" /\ idx' = idx + 1
    /\ UNCHANGED <<config, disk, moved_counts, files_to_process, category, season_number,
                   episode_number, updated_category, fault, exit_code>>

\* Line 852 with lines 398-410: classification; a category outside the five
\* placed ones calls move_to_failed (lines 791-803: the tally first, then the
\* move, whose errors are caught) and logs why.  Line 404 calls
\* service.capitalize(), which raises AttributeError when service is None.
Classified(r) ==
        /\ category' = r.category
        /\ season_number' = r.season
        /\ episode_number' = r.episode
        /\ IF r.category \in Placed
           THEN /\ pc' = "copy"
                /\ UNCHANGED <<process, failed, moved_counts, idx, fault, exit_code>>
           ELSE /\ moved_counts' = Tally(moved_counts, "failed", 1)
                /\ process' = process \ {filename}
                /\ failed' = IF filename \in process THEN failed \cup {filename} ELSE failed
                /\ IF r.category = "not_supported" /\ service = None
                   THEN Halt("AttributeError") /\ idx' = idx
                   ELSE pc' = "loop" /\ idx' = idx + 1 /\ UNCHANGED <<fault, exit_code>>

Categories ==
    /\ pc = "categories"
    /\ Classified(classify(filename))
    /\ UNCHANGED <<config, library, made_dirs, backup_dir, files_to_process, filename,
                   updated_category>>

\* The library after shutil.copy(src, dest) and os.rename(dest, new_dest):
\* whatever stood at either path is replaced.
Written(lib, d, f) ==
    {x \in lib : ~(/\ x.lib = d.lib /\ x.folder = d.folder /\ x.sub = d.sub
                   /\ x.name \in {d.name, f})}
        \cup {[lib |-> d.lib, folder |-> d.folder, sub |-> d.sub, name |-> d.name, src |-> f]}

\* Line 854: copy_and_rename.  shutil.copy raises FileNotFoundError when the
\* source has left process_dir.
Returned(o) ==
        /\ made_dirs' = made_dirs \cup o.mkdir
        /\ IF o.raised # None
           THEN /\ Halt(o.raised)
                /\ UNCHANGED <<library, process, failed, moved_counts, updated_category>>
           ELSE IF o.copy # {} /\ filename \notin process
           THEN /\ Halt("FileNotFoundError")
                /\ UNCHANGED <<library, process, failed, moved_counts, updated_category>>
           ELSE /\ library' = IF o.copy = {} THEN library
                              ELSE Written(library, CHOOSE d \in o.copy : TRUE, filename)
                /\ IF o.tofailed
                   THEN /\ moved_counts' = Tally(moved_counts, "failed", 1)
                        /\ process' = process \ {filename}
                        /\ failed' = IF filename \in process THEN failed \cup {filename}
                                     ELSE failed
                   ELSE UNCHANGED <<process, failed, moved_counts>>
                /\ updated_category' = o.ret
                /\ pc' = "cleanup"
                /\ UNCHANGED <<fault, exit_code>>

CopyAndRename ==
    /\ pc = "copy"
    /\ Returned(copyAndRename(filename, category, season_number, episode_number))
    /\ UNCHANGED <<config, backup_dir, files_to_process, idx, filename, category,
                   season_number, episode_number>>

\* Lines 855-869: unless copy_and_rename returned 'failed', the staging file
\* is moved to the backup directory or deleted (a missing file is logged, not
\* raised) and the tally of the returned category grows.
Cleanup ==
    /\ pc = "cleanup"
    /\ IF updated_category # "failed"
       THEN /\ process' = process \ {filename}
            /\ backup_dir' = IF backup_enabled /\ filename \in process
                             THEN backup_dir \cup {filename} ELSE backup_dir
            /\ moved_counts' = Tally(moved_counts, updated_category, 1)
       ELSE UNCHANGED <<process, backup_dir, moved_counts>>
    /\ idx' = idx + 1
    /\ pc' = "loop"
    /\ UNCHANGED <<config, library, made_dirs, failed, files_to_process, locals, fault,
                   exit_code>>

\* Lines 871-898: the summary; the script ends with exit code 0
Finish ==
    /\ pc = "loop"
    /\ idx > Len(files_to_process)
    /\ pc' = "done"
    /\ exit_code' = "0"
    /\ UNCHANGED <<config, disk, moved_counts, files_to_process, idx, locals, fault>>

Next == Snapshot \/ LoopNext \/ Categories \/ CopyAndRename \/ Cleanup \/ Finish

Spec == Init /\ [][Next]_vars

(***************************************************************************)
(* The run with an external actor                                          *)
(***************************************************************************)
\* Another process removes a file of the snapshot from process_dir while the
\* loop runs: the race the existence check of lines 848-850 is there for.
ExternalRemove ==
    /\ pc \in {"loop", "categories", "copy", "cleanup"}
    /\ \E f \in process \cap Range(files_to_process) : process' = process \ {f}
    /\ UNCHANGED <<config, library, made_dirs, failed, backup_dir, moved_counts,
                   files_to_process, idx, locals, pc, fault, exit_code>>

NextRace == Next \/ ExternalRemove

SpecRace == Init /\ [][NextRace]_vars

(***************************************************************************)
(* Runs over one staging file whose name matches several patterns or       *)
(* several libraries at once                                               *)
(***************************************************************************)
AmbiguousFiles ==
    {"Show (2020) - Season 3.jpg", "Season 1.jpg", "Season 1 S01E02.jpg",
     "Specials Collection.jpg", "Specials S01E02.jpg", "S01E02.jpg", "S1E2.jpg",
     "Show S01E02.jpg", "Show S1E2.jpg", "Marvel Collection.jpg", "Marvel.jpg"}

AmbiguousMovies == {"Marvel", "Season 1"}

AmbiguousShows == {"Show (2020)", "S01E02"}

AmbiguousCollections == {"Marvel", "Marvel Collection", "Specials"}

InitAmbiguous ==
    /\ service \in Services
    /\ plex_specials \in IF service = "plex" THEN {None, "True", "False"} ELSE {None}
    /\ season_dirs = {}
    /\ backup_enabled = FALSE
    /\ process \in {{f} : f \in AmbiguousFiles}
    /\ listing \in [movies : Listings(AmbiguousMovies), shows : Listings(AmbiguousShows),
                    collections : Listings(AmbiguousCollections)]
    /\ image_size = [f \in process |-> <<1000, 1500>>]
    /\ library = {}
    /\ made_dirs = {}
    /\ failed = {}
    /\ backup_dir = {}
    /\ moved_counts = [k \in TallyKeys |-> 0]
    /\ files_to_process = <<>>
    /\ idx = 1
    /\ filename = None
    /\ category = None
    /\ season_number = None
    /\ episode_number = None
    /\ updated_category = None
    /\ pc = "snapshot"
    /\ fault = None
    /\ exit_code = None

SpecAmbiguous == InitAmbiguous /\ [][Next]_vars

(***************************************************************************)
(* Runs of plex over the posters and episode cards of one show's seasons   *)
(***************************************************************************)
SeasonFiles ==
    {"Show (2020) - Season 0.jpg", "Show (2020) - Season 00.jpg",
     "Show (2020) - Specials.jpg", "Show (2020) - S00E01.jpg",
     "Show (2020) - Season 1.jpg", "Show (2020) - S01E02.jpg"}

SeasonShows == {"Show (2020)"}

\* The season subfolders the show folder holds before the run
SeasonZeroLayouts ==
    {{},
     {[sub |-> "Specials", videos |-> <<"Show - S00E01.mkv">>],
      [sub |-> "Season 01", videos |-> <<"Show - S01E02.mkv">>]},
     {[sub |-> "Season 00", videos |-> <<"Show - S00E01.mkv">>],
      [sub |-> "Season 01", videos |-> <<"Show - S01E02.mkv">>]}}

InitSeasons ==
    /\ service = "plex"
    /\ plex_specials \in {None, "True", "False"}
    /\ season_dirs \in SeasonZeroLayouts
    /\ backup_enabled \in BOOLEAN
    /\ process \in {S \in SUBSET SeasonFiles : Cardinality(S) <= MaxFiles}
    /\ listing \in [movies : {<<>>}, shows : Listings(SeasonShows), collections : {<<>>}]
    /\ image_size = [f \in process |-> <<1000, 1500>>]
    /\ library = {}
    /\ made_dirs = {}
    /\ failed = {}
    /\ backup_dir = {}
    /\ moved_counts = [k \in TallyKeys |-> 0]
    /\ files_to_process = <<>>
    /\ idx = 1
    /\ filename = None
    /\ category = None
    /\ season_number = None
    /\ episode_number = None
    /\ updated_category = None
    /\ pc = "snapshot"
    /\ fault = None
    /\ exit_code = None

SpecSeasons == InitSeasons /\ [][Next]_vars

(***************************************************************************)
(* What the documentation promises of a run, stated over the state above   *)
(***************************************************************************)
\* The copies of staging file f that stand in the library
CopiesOf(f) == {x \in library : x.src = f}

\* The files of the snapshot
Snapshotted == Range(files_to_process)

\* C1: when the run completes, every image of the snapshot is in exactly one
\* terminal state: a copy of it stands in a library folder and the original
\* has left staging without going to the failed area, or the original sits in
\* the failed area and no copy was placed.
C1_OneTerminalState ==
    pc = "done" =>
        \A f \in Snapshotted :
            \/ CopiesOf(f) # {} /\ f \notin process /\ f \notin failed
            \/ CopiesOf(f) = {} /\ f \notin process /\ f \in failed

\* The sum of the counters of the tally
TallySum == moved_counts["movie"] + moved_counts["show"] + moved_counts["season"]
                + moved_counts["episode"] + moved_counts["collection"] + moved_counts["failed"]

\* The files the run handled so far: the files of the snapshot the loop is
\* done with, and the files the snapshot turned away.
Handled ==
    IF pc = "snapshot" THEN 0
    ELSE (idx - 1) + Cardinality(failed \ Snapshotted)

\* C2: every handled file increments exactly one counter of the tally,
\* exactly once: whenever the loop stands between two files (and when the run
\* is done) the counters sum to the number of files handled.
C2_OneCounterPerFile ==
    pc \in {"loop", "done"} => TallySum = Handled

\* C3: a per-file failure never aborts the run: the run ends early only by
\* the fatal error of an unset plex_specials, so every other run reaches
\* exit code 0.
C3_OnlySpecialsHalt ==
    pc = "halted" => fault = "sys.exit(1)" /\ service = "plex" /\ plex_specials = None

\* A staging file "<Title> (<Year>) - Season <N>.<ext>"
IsTitledSeason(f) == showPos(f) # 0 /\ seasonPos(f) > showPos(f)

\* C4: under kometa, a file "<Title> (<Year>) - Season <N>.<ext>" whose
\* folder "<Title> (<Year>)" is in the shows library ends the run with a copy
\* "Season<NN>.<ext>" in that folder and in no other, with the staging file
\* deleted or backed up, and (when it is the only file) a season tally of 1.
C4_KometaSeasonInExactFolder ==
    pc = "done" /\ service = "kometa" =>
        \A f \in Snapshotted :
            IsTitledSeason(f) /\ expectedDir(f) \in Range(listing.shows) =>
                /\ \E x \in CopiesOf(f) :
                      /\ x.lib = "shows" /\ x.folder = expectedDir(f) /\ x.sub = ""
                      /\ x.name = "Season" \o zfill2(seasonGroup1(f)) \o splitext1(f)
                /\ \A x \in CopiesOf(f) : x.folder = expectedDir(f)
                /\ f \notin process
                /\ f \in backup_dir <=> backup_enabled
                /\ Len(files_to_process) = 1 => moved_counts["season"] = 1

\* C5: the copy of a movie or show asset is named "poster.<ext>" when the
\* image is taller than wide and "background.<ext>" otherwise, never by its
\* staging file name.
C5_PosterOrBackground ==
    pc = "cleanup" /\ category \in {"movie", "show"} =>
        \A x \in CopiesOf(filename) :
            x.name = IF image_size[filename][2] > image_size[filename][1]
                     THEN "poster" \o splitext1(filename)
                     ELSE "background" \o splitext1(filename)

\* Folder d carries the title and the year of asset f (case-insensitively)
SameTitleAndYear(d, f) ==
    /\ showPos(d) # 0 /\ showPos(f) # 0
    /\ lower(strip(showGroup1(d))) = lower(strip(showGroup1(f)))
    /\ showGroup2(d) = showGroup2(f)

\* The library a category is placed in
LibraryOf(cat) == IF cat = "movie" THEN "movies" ELSE "shows"

\* C6: an asset with a title and a year (movie, show or episode card) whose
\* library holds a folder of the same title and year is placed in such a
\* folder, whatever else the listing holds and in whatever order.
C6_ExactMatchFirst ==
    /\ pc = "cleanup" /\ category \in {"movie", "show", "episode"}
    /\ \E d \in Range(listing[LibraryOf(category)]) : SameTitleAndYear(d, filename)
    => \A x \in CopiesOf(filename) : SameTitleAndYear(x.folder, filename)

\* The title of a folder: what comes before its first "(", case folded
FolderTitle(d) == lower(strip(SplitFirst(d, "(")))

\* C7: an asset without a year whose title is that of several folders, one
\* of them tagged (US) or (USA), is placed in a US-tagged folder, in every
\* listing order.
C7_RegionPreference ==
    /\ pc = "cleanup" /\ category \in {"show", "episode"}
    /\ showPos(filename) = 0
    /\ Cardinality({d \in Range(listing.shows) : FolderTitle(d) = stem(filename)}) > 1
    /\ \E d \in Range(listing.shows) : FolderTitle(d) = stem(filename) /\ IsUS(d)
    => \A x \in CopiesOf(filename) : IsUS(x.folder)

\* The folders of the shows library with the title of asset f and a year
SameTitle(f) ==
    {d \in Range(listing.shows) :
        showPos(d) # 0 /\ lower(strip(showGroup1(d))) = lower(strip(showGroup1(f)))}

\* |year of folder d - year of asset f|
YearGap(d, f) == abs(int(showGroup2(d)) - int(showGroup2(f)))

\* The position of folder d in the shows listing
ListedAt(d) == CHOOSE i \in 1..Len(listing.shows) : listing.shows[i] = d

\* The folder of SameTitle(f) nearest in year, the first listed among equals
NearestYear(f) ==
    CHOOSE d \in SameTitle(f) :
        \A e \in SameTitle(f) :
            \/ YearGap(d, f) < YearGap(e, f)
            \/ YearGap(d, f) = YearGap(e, f) /\ ListedAt(d) <= ListedAt(e)

\* C8: an episode card with a title and a year, several folders of that
\* title, none of its year and none US-tagged: the card is placed in the
\* folder nearest in year, the first listed among equals.
C8_NearestYear ==
    /\ pc = "cleanup" /\ category = "episode" /\ showPos(filename) # 0
    /\ Cardinality(SameTitle(filename)) > 1
    /\ \A d \in SameTitle(filename) : YearGap(d, filename) # 0 /\ ~IsUS(d)
    => \A x \in CopiesOf(filename) : x.folder = NearestYear(filename)

\* A specials asset: a "Specials" poster, a poster of season zero, or an
\* episode card of season zero
IsSpecialsAsset(f) ==
    \/ specialsMatch(f)
    \/ seasonPos(f) # 0 /\ int(seasonGroup1(f)) = 0
    \/ episodePos(f) # 0 /\ int(episodeGroup1(f, episodePos(f))) = 0

\* C9: under plex with plex_specials unset no specials asset is ever placed
\* in the library.
C9_NoSpecialsPlacedWhenUnset ==
    service = "plex" /\ plex_specials = None =>
        \A x \in library : ~IsSpecialsAsset(x.src)

\* C10: under plex with plex_specials resolved, a file classified as the
\* specials season (no season number, "Specials" in any letter case, its
\* show folder found) has, once copy_and_rename is over, a copy named
\* "season-specials-poster.<ext>" in "Specials" (true) or "Season 00" (false).
C10_SpecialsFolderByPolicy ==
    /\ service = "plex" /\ plex_specials \in {"True", "False"}
    /\ pc \in {"cleanup", "halted"}
    /\ category = "season" /\ season_number = None /\ specialsMatch(filename)
    /\ seasonShowDir(filename) # None
    => \E x \in CopiesOf(filename) :
          /\ x.sub = IF plex_specials = "True" THEN "Specials" ELSE "Season 00"
          /\ x.name = "season-specials-poster" \o splitext1(filename)

\* The season subfolder an episode card of plex belongs in
CardSeasonDir(f) ==
    IF int(episodeGroup1(f, episodeLastPos(f))) = 0
    THEN (IF plex_specials = "True" THEN "Specials" ELSE "Season 00")
    ELSE "Season " \o zfill2(episodeGroup1(f, episodeLastPos(f)))

\* What copy_and_rename does to a plex episode card: it creates no folder,
\* and a card whose season subfolder is in no show folder goes to failed.
CardStep ==
    /\ made_dirs' = made_dirs
    /\ (\A d \in Range(listing.shows) : ~seasonDirExists(d, CardSeasonDir(filename)))
           /\ pc' # "halted"
       => /\ updated_category' = "failed"
          /\ filename \notin process' /\ failed' = failed \cup {filename}
          /\ moved_counts' = Tally(moved_counts, "failed", 1)
          /\ library' = library

\* What copy_and_rename does to a plex season poster it places: the copy
\* stands in a season subfolder, created by this step when it was missing,
\* and no other folder is created.
PosterStep ==
    pc' = "cleanup" /\ updated_category' = "season" =>
        \E x \in library' \ library :
            /\ x.src = filename /\ x.sub # ""
            /\ made_dirs' = IF seasonDirExists(x.folder, x.sub) THEN made_dirs
                            ELSE made_dirs \cup {<<x.folder, x.sub>>}

SameNumbers(v, f) ==
    /\ episodeLastPos(v) # 0 /\ episodeLastPos(f) # 0
    /\ int(episodeGroup1(v, episodeLastPos(v))) = int(episodeGroup1(f, episodeLastPos(f)))
    /\ int(episodeGroup2(v, episodeLastPos(v))) = int(episodeGroup2(f, episodeLastPos(f)))

\* The videos of the card's season subfolder with the card's numbers
CompanionVideos(f) ==
    {v \in Range(seasonListing(CardSeasonDir(f))) : IsVideo(v) /\ SameNumbers(v, f)}

\* C12: under plex an episode card whose show folder and season subfolder
\* are found is placed in that subfolder under the base name of a video with
\* the same season and episode numbers (whatever the zero-padding) and the
\* card's extension; without such a video the card fails and nothing is
\* copied.
C12_CompanionVideoByNumbers ==
    /\ pc = "cleanup" /\ service = "plex" /\ category = "episode"
    /\ plexEpisodeDir(filename) # None
    /\ seasonDirExists(plexEpisodeDir(filename), CardSeasonDir(filename))
    => IF CompanionVideos(filename) = {}
       THEN CopiesOf(filename) = {} /\ filename \in failed
       ELSE \E x \in CopiesOf(filename), v \in CompanionVideos(filename) :
               /\ x.sub = CardSeasonDir(filename)
               /\ x.name = splitext0(v) \o splitext1(filename)

\* C13: a file of the snapshot that has left staging when the loop classifies
\* or places it is skipped: the step raises no uncaught fault, counts the
\* file neither as failed nor as placed, and writes nothing to the library.
C13_DisappearedIsSkipped ==
    [][(pc = "categories" \/ pc = "copy") /\ filename \notin process =>
          /\ pc' # "halted"
          /\ moved_counts' = moved_counts
          /\ library' = library]_vars

\* C14: classification applies a fixed precedence.  A name the season pattern
\* matches is never classified episode, collection, movie or show; a name
\* with 'Specials' and no season pattern neither; a name the episode pattern
\* matches, and neither of the former, is never classified collection, movie
\* or show, whatever folders the libraries hold.
C14_FixedPrecedence ==
    [][pc = "categories" =>
          /\ seasonPos(filename) # 0
                => category' \notin {"episode", "collection", "movie", "show"}
          /\ seasonPos(filename) = 0 /\ specialsMatch(filename)
                => category' \notin {"episode", "collection", "movie", "show"}
          /\ seasonPos(filename) = 0 /\ ~specialsMatch(filename) /\ episodePos(filename) # 0
                => category' \notin {"collection", "movie", "show"}]_vars

\* An episode card whose name a library folder matches as well
C14_Witness ==
    /\ pc = "copy"
    /\ category = "episode"
    /\ seasonPos(filename) = 0 /\ ~specialsMatch(filename)
    /\ fallbackCategory(filename) \in {"collection", "movie", "show"}

\* The text of a titled name up to the closing parenthesis of the year
TitleAndYear(f) == SubSeq(f, 1, Find(f, ")"))

\* C15: classifying a file "<Title> (<Year>) - Season <N>.<ext>" yields
\* 'season' with season number N when a service is configured and the shows
\* library holds a folder named exactly "<Title> (<Year>)"; it yields no
\* category, and the file is moved to failed, when a service is configured
\* and that folder is missing; it yields 'skip', and the file is moved to
\* failed, when no service is configured, whatever the libraries hold.
C15_TitledSeasonPoster ==
    [][pc = "categories" /\ IsTitledSeason(filename) =>
          IF ~Truthy(service)
          THEN /\ category' = "skip"
               /\ filename \in failed' /\ filename \notin process' /\ library' = library
          ELSE IF TitleAndYear(filename) \in Range(listing.shows)
          THEN /\ category' = "season"
               /\ season_number' = seasonGroup1(filename)
               /\ pc' = "copy" /\ failed' = failed
          ELSE /\ category' = None
               /\ filename \in failed' /\ filename \notin process' /\ library' = library]_vars

\* A titled season poster classified with its number, its show folder present
C15_Witness ==
    /\ pc = "copy"
    /\ IsTitledSeason(filename)
    /\ category = "season" /\ season_number = "3"
    /\ TitleAndYear(filename) \in Range(listing.shows)

\* An episode card without a title and year
IsUntitledCard(f) ==
    /\ showPos(f) = 0 /\ seasonPos(f) = 0 /\ ~specialsMatch(f)
    /\ episodePos(f) # 0

\* The names that differ from "S01E02" in leading zeros only
PaddingVariants == {"S1E2.jpg", "S01E02.jpg", "Show S1E2.jpg", "Show S01E02.jpg"}

\* C16: with a service configured, a file "S<NN>E<MM>" without title and year
\* is classified 'episode' with the season and episode digits of its name,
\* whatever the libraries hold; 'S1E2' and 'S01E02' give the same category
\* and the same zero-padded numbers, and every copy kometa makes of either
\* is named "S01E02.<ext>".
C16_PaddingIndependent ==
    [][Truthy(service) /\ IsUntitledCard(filename) =>
          /\ pc = "categories" =>
                /\ category' = "episode" /\ pc' = "copy"
                /\ season_number' = episodeGroup1(filename, episodePos(filename))
                /\ episode_number' = episodeGroup2(filename, episodePos(filename))
                /\ filename \in PaddingVariants =>
                      zfill2(season_number') = "01" /\ zfill2(episode_number') = "02"
          /\ pc = "copy" /\ service = "kometa" /\ filename \in PaddingVariants =>
                \A x \in library' \ library : x.name = "S01E02.jpg"]_vars

\* kometa has placed the card "Show S1E2.jpg" as "S01E02.jpg"
C16_Witness ==
    /\ pc = "cleanup" /\ service = "kometa"
    /\ IsUntitledCard(filename) /\ season_number = "1" /\ episode_number = "2"
    /\ updated_category = "episode"
    /\ \E x \in library : x.src = filename /\ x.name = "S01E02.jpg"

\* A name without its extension or a folder name, lower-cased, with the token
\* 'collection' removed and the blanks around it trimmed
CollectionKey(n) == strip(remove(lower(n), "collection"))

\* The collections folders whose key is the file's
CollectionsFor(f) ==
    {d \in Range(listing.collections) : CollectionKey(d) = CollectionKey(splitext0(f))}

\* The folders of a library whose name contains the file's
FoldersNaming(f, dirs) == {d \in Range(dirs) : Contains(lower(splitext0(f)), lower(d))}

\* C17: a file that matches none of the season, specials and episode patterns
\* and whose key equals that of some collections folder is classified
\* 'collection' exactly when the service is kometa or kodi, and
\* 'not_supported' for every other service value, None included; a
\* 'not_supported' file is moved to failed and is classified neither movie
\* nor show, whatever the movies and shows libraries hold.  Only without a
\* matching collections folder is the file looked up in movies, then shows.
C17_CollectionBeforeLibraries ==
    [][/\ pc = "categories"
       /\ seasonPos(filename) = 0 /\ ~specialsMatch(filename) /\ episodePos(filename) = 0
       => IF CollectionsFor(filename) # {}
          THEN IF service \in {"kometa", "kodi"}
               THEN category' = "collection" /\ pc' = "copy"
               ELSE /\ category' = "not_supported"
                    /\ filename \in failed' /\ filename \notin process'
                    /\ library' = library
          ELSE IF FoldersNaming(filename, listing.movies) # {} THEN category' = "movie"
          ELSE IF FoldersNaming(filename, listing.shows) # {} THEN category' = "show"
          ELSE category' = None]_vars

\* A file refused as a collection although a movie folder bears its name
C17_Witness ==
    /\ category = "not_supported"
    /\ filename \in failed
    /\ CollectionsFor(filename) # {}
    /\ FoldersNaming(filename, listing.movies) # {}

\* C18: processing one staging file either leaves the libraries as they were
\* (always so when the file goes to failed), or adds exactly one file, under
\* a name other than the staging one, to one folder, with at most one season
\* subfolder created for a plex season poster; nothing is removed.
C18_OneCanonicalAddition ==
    [][pc = "categories" \/ pc = "copy" \/ pc = "cleanup" =>
          /\ \/ library' = library /\ made_dirs' = made_dirs
             \/ \E x \in library' \ library :
                   /\ library' = library \cup {x}
                   /\ x.src = filename /\ x.name # filename
                   /\ \/ made_dirs' = made_dirs
                      \/ /\ service = "plex" /\ category = "season"
                         /\ made_dirs' = made_dirs \cup {<<x.folder, x.sub>>}
          /\ filename \in failed' => library' = library /\ made_dirs' = made_dirs]_vars

\* C19: the placement step copies an asset into the folder the classifier
\* accepted it for: a collection asset into the collections folder of equal
\* key, a titled episode card into the best match of the episode cascade,
\* for every listing and listing order.
C19_PlacedWhereClassified ==
    [][pc = "copy" =>
          \A x \in library' \ library :
              /\ category = "collection" => x.folder = collectionMatch(filename)
              /\ category = "episode" /\ Truthy(showName(filename))
                    => x.folder = episodeBestMatch(filename)]_vars

\* The assets the tally counts as placed
PlacedSum == moved_counts["movie"] + moved_counts["show"] + moved_counts["season"]
                + moved_counts["episode"] + moved_counts["collection"]

\* C20: every asset counted as placed has its own file in the library when
\* the run is done: the files the run added are as many as the five category
\* counters together, and no step replaces a file an earlier step placed.
C20_CountedAssetsHaveFiles ==
    [][/\ pc = "copy" => library \subseteq library'
       /\ pc' = "done" => Cardinality(library') = PlacedSum']_vars

\* The season a poster or an episode card is of: zero for a "Specials" poster
SeasonOf(f) ==
    IF seasonPos(f) # 0 THEN int(seasonGroup1(f))
    ELSE IF specialsMatch(f) THEN 0
    ELSE int(episodeGroup1(f, episodePos(f)))

\* C21: under plex with the specials policy resolved, the season poster and
\* the episode cards of one season of a show stand in the same season
\* subfolder; for season zero a poster "Season 0" or "Season 00", a poster
\* "Specials" and a card "S00E<MM>" all stand in "Specials" when the policy
\* is true and all in "Season 00" when it is false.
C21_OneSubfolderPerSeason ==
    service = "plex" /\ plex_specials \in {"True", "False"} =>
        /\ \A x, y \in library :
              x.folder = y.folder /\ SeasonOf(x.src) = SeasonOf(y.src) => x.sub = y.sub
        /\ \A x \in library :
              SeasonOf(x.src) = 0
                  => x.sub = IF plex_specials = "True" THEN "Specials" ELSE "Season 00"

=============================================================================
